---- MODULE Spec2Model ----
(***************************************************************************)
(* PicoWave: a waveOut streaming engine.  One Detail object (the session), *)
(* the caller's thread issuing open/start/pause/close, the worker threads  *)
(* created by open (running Detail::_threadProc), and the wave device that *)
(* completes submitted headers and signals the wave event.                 *)
(***************************************************************************)
EXTENDS Integers, FiniteSets, Sequences, TLC

\* ------------------------------------------------------------------ bounds
\* number of threads that can exist at a time (CreateThread fails when no
\* thread slot is free; the slot of a thread that has ended is used again)
MaxThreads == 2
\* largest suspend count of a thread (SuspendThread fails beyond it)
MaxSuspend == 2

\* ------------------------------------------------------- program constants
PW_OK == 0
PW_ALREADY_OPEN == 1
PW_WAVEINFO_ERROR == 2
PW_THREAD_ABORT == 3
PW_WAVEOUTOPEN_ERROR == 4
PW_CREATETHREAD_ERROR == 5
PW_CREATEEVENT_ERROR == 6
PW_WAVEOUTCLOSE_ERROR == 7
PW_WAVEOUTWRITE_ERROR == 8
PW_WAVEOUTPREPHDR_ERROR == 9
PW_CLOSEHANDLE_ERROR == 10

\* std::array<WAVEHDR, 4>
NumHdrs == 4
\* 128 bits of alignment
alignment == 16

Hdrs == 1..NumHdrs
Threads == 1..MaxThreads

\* the address operator new[] returns (8-byte aligned, not 16-byte aligned)
HeapAddrs == {4104}

\* unsigned wrap-around of size_t arithmetic (the low bits suffice for the
\* sizes drawn below)
SizeMod == 2^16

\* ----------------------------------------------------------------- inputs
WaveInfo(sr, bd, ch, bs, cb) ==
    [sampleRate |-> sr, bitDepth |-> bd, channels |-> ch, bufferSize |-> bs,
     callback |-> cb]

\* memset(&_info, 0, sizeof(_info))
ZeroInfo == WaveInfo(0, 0, 0, 0, 0)

\* the configurations open is called with (callback 1 is a function, 0 is
\* nullptr): every combination of supported field values, and configurations
\* that break the validation rules
SupportedConfigs ==
    { WaveInfo(sr, bd, ch, bs, 1) :
        sr \in {11025, 22050, 44100}, bd \in {8, 16}, ch \in {1, 2}, bs \in {1, 16, 256} }

UnsupportedConfigs ==
    { WaveInfo(44100, 16, 2, 100, 1),
      WaveInfo(44100, 16, 2, 0, 1),
      WaveInfo(44100, 16, 2, 256, 0),
      WaveInfo(44100, 24, 2, 256, 1),
      WaveInfo(8000, 16, 2, 256, 1),
      WaveInfo(44100, 16, 3, 256, 1),
      WaveInfo(22050, 8, 1, 6, 1),
      WaveInfo(8000, 24, 3, 100, 0) }

AllConfigs == SupportedConfigs \cup UnsupportedConfigs

\* the configurations of the runs with the worker started: a valid one and
\* one without a callback
Configs ==
    { WaveInfo(44100, 16, 2, 256, 1),
      WaveInfo(11025, 8, 1, 64, 0) }

\* ---------------------------------------------------------- pure helpers
RECURSIVE BitAnd(_, _)
BitAnd(a, b) ==
    IF a = 0 \/ b = 0 THEN 0
    ELSE (IF a % 2 = 1 /\ b % 2 = 1 THEN 1 ELSE 0) + 2 * BitAnd(a \div 2, b \div 2)

\* (ptr + offset) & mask, with offset = align - 1 and mask = ~(align - 1)
alignPtr(ptr, align) ==
    LET offset == align - 1
    IN  (ptr + offset) - BitAnd(ptr + offset, align - 1)

\* 0 == (in & (in - 1)), in unsigned arithmetic
isPowerOfTwo(in) == 0 = BitAnd(in, (in + SizeMod - 1) % SizeMod)

validate(cfg) ==
    IF ~isPowerOfTwo(cfg.bufferSize) THEN FALSE
    ELSE IF cfg.callback = 0 THEN FALSE
    ELSE IF cfg.bitDepth # 16 \/ cfg.bitDepth # 8 THEN FALSE
    ELSE IF cfg.sampleRate \notin {44100, 22050, 11025} THEN FALSE
    ELSE IF cfg.channels # 1 /\ cfg.channels # 2 THEN FALSE
    ELSE TRUE

\* ------------------------------------------------------------------ state
VARIABLES
    wavehdr,      \* _wavehdr: the 4 WAVEHDRs [lpData, dwBufferLength, dwFlags]
    hwo,          \* _hwo: device handle, 0 is NULL
    alive,        \* _alive
    waveEvent,    \* _waveEvent: event handle, 0 is NULL
    waveThread,   \* _waveThread: thread handle (the thread's id), 0 is NULL
    rawAlloc,     \* _rawAlloc: address of the pool allocation, 0 is NULL
    info,         \* _info
    error,        \* _error
    heap,         \* addresses of the live new[] blocks
    evSignaled,   \* state of the auto-reset event object
    thr,          \* the threads: position in _threadProc and suspend count
    callerPc,     \* position of the caller's thread
    last,         \* the most recent public call: what it did and returned
    lastSP,       \* the later of the successful start/pause calls on the worker
    owed,         \* per header: 1 from its completion until a callback answers
                  \* it or it is submitted again
    run           \* "primed" from a successful open to the first start that
                  \* finds the worker, "started" from then to the end of the
                  \* worker's handle, "none" otherwise

vars == <<wavehdr, hwo, alive, waveEvent, waveThread, rawAlloc, info, error,
          heap, evSignaled, thr, callerPc, last, lastSP, owed, run>>

ZeroHdr == [lpData |-> 0, dwBufferLength |-> 0, dwFlags |-> {}]
NoThread == [pc |-> "none", i |-> 1, susp |-> 0]
DeadThread(how) == [pc |-> how, i |-> 1, susp |-> 0]

Call(op, ret, ops, failed, pre, valid, afterOpen) ==
    [op |-> op, ret |-> ret, ops |-> ops, failed |-> failed, preClosed |-> pre,
     valid |-> valid, afterOpen |-> afterOpen]

\* what the specification accepts as a stream configuration
ValidConfig(cfg) ==
    /\ cfg.sampleRate \in {11025, 22050, 44100}
    /\ cfg.bitDepth \in {8, 16}
    /\ cfg.channels \in {1, 2}
    /\ \E e \in 0..14 : cfg.bufferSize = 2^e
    /\ cfg.callback # 0

\* the session holds no handle (what open tests before it goes on)
Closed == hwo = 0 /\ waveThread = 0 /\ waveEvent = 0

\* the process runs: the object is not destroyed and nothing has crashed
Running == callerPc \notin {"gone", "crashed"}

\* the ways a thread ends: _threadProc returns 0 or 1, or it is terminated
Ended == {"exited", "failed", "killed"}

Live(t) == thr[t].pc \notin {"none"} \cup Ended
\* thread t is scheduled: it has not ended and is not suspended
Runnable(t) == Running /\ Live(t) /\ thr[t].susp = 0

\* Detail::Detail
Init ==
    /\ wavehdr = [h \in Hdrs |-> ZeroHdr]
    /\ hwo = 0
    /\ alive = 0
    /\ waveEvent = 0
    /\ waveThread = 0
    /\ rawAlloc = 0
    /\ info = ZeroInfo
    /\ error = PW_OK
    /\ heap = {}
    /\ evSignaled = FALSE
    /\ thr = [t \in Threads |-> NoThread]
    /\ callerPc = "idle"
    /\ last = Call("none", TRUE, {}, "none", TRUE, FALSE, FALSE)
    /\ lastSP = "none"
    /\ owed = [h \in Hdrs |-> 0]
    /\ run = "none"

\* ------------------------------------------------------------ wave device
\* waveOutPrepareHeader on a header
PrepareHeader(hdr) == [hdr EXCEPT !.dwFlags = {"PREPARED"}]
\* waveOutWrite on a prepared header
WriteHeader(hdr) == [hdr EXCEPT !.dwFlags = {"PREPARED", "INQUEUE"}]
\* waveOutUnprepareHeader on a header
UnprepareHeader(hdr) == [hdr EXCEPT !.dwFlags = @ \ {"PREPARED"}]

Submitted(h) == "INQUEUE" \in wavehdr[h].dwFlags

\* a scan that takes any flagged header for a finished one
DoneAnyFlag(h) == wavehdr[h].dwFlags # {}

\* (hdr.dwFlags & WHDR_DONE) != 0
Done(h) == "DONE" \in wavehdr[h].dwFlags

\* --------------------------------------------------------------- open
\* the calls of open that can fail, and the header a priming call fails on
FailPoints ==
    {[call |-> c, k |-> 0] : c \in {"none", "CreateEvent", "waveOutOpen", "CreateThread"}}
    \cup {[call |-> c, k |-> k] :
            c \in {"waveOutPrepareHeader", "waveOutWrite", "assert"}, k \in Hdrs}

ErrorOf(call) ==
    CASE call = "CreateEvent" -> PW_CREATEEVENT_ERROR
      [] call = "waveOutOpen" -> PW_WAVEOUTOPEN_ERROR
      [] call = "CreateThread" -> PW_CREATETHREAD_ERROR
      [] call = "waveOutPrepareHeader" -> PW_WAVEOUTPREPHDR_ERROR
      [] call = "waveOutWrite" -> PW_WAVEOUTWRITE_ERROR

\* the address of chunk k of the allocation at addr
chunkPtr(cfg, addr, k) ==
    LET numSamples == cfg.bufferSize * cfg.channels
        numBytes == (numSamples * cfg.bitDepth) \div 8
        hdrSamples == numBytes \div NumHdrs
    IN  alignPtr(addr, alignment) + (k - 1) * hdrSamples

\* the condition of assert(0 == ((uintptr_t)ptr & (alignment - 1))) at chunk k
aligned(cfg, addr, k) == 0 = BitAnd(chunkPtr(cfg, addr, k), alignment - 1)

\* the assertion aborts open at chunk k: it is the first chunk that breaks it
\* (in a build that keeps assertions; one without them goes on)
AssertAborts(cfg, addr, k) ==
    /\ ~aligned(cfg, addr, k)
    /\ \A j \in 1..(k - 1) : aligned(cfg, addr, j)

\* Detail::_prepare: the headers after slicing the allocation at addr and
\* priming; f is the device call that fails or the assertion that aborts
\* (none: all succeed)
prepare(cfg, f, addr) ==
    LET numSamples == cfg.bufferSize * cfg.channels
        numBytes == (numSamples * cfg.bitDepth) \div 8
        ptr == alignPtr(addr, alignment)
        hdrSamples == numBytes \div NumHdrs
        sliced(k) == [lpData |-> ptr + (k - 1) * hdrSamples,
                      dwBufferLength |-> hdrSamples, dwFlags |-> {}]
    IN  [k \in Hdrs |->
            IF f.call = "none" \/ k < f.k THEN WriteHeader(PrepareHeader(sliced(k)))
            ELSE IF k = f.k
                 THEN IF f.call = "assert" THEN wavehdr[k]
                      ELSE IF f.call = "waveOutPrepareHeader" THEN sliced(k)
                      ELSE PrepareHeader(sliced(k))
                 ELSE wavehdr[k]]

\* the calls open has made when it stops at f
OpenOps(f) ==
    {"CreateEvent"}
    \cup (IF f.call # "CreateEvent" THEN {"waveOutOpen"} ELSE {})
    \cup (IF f.call \notin {"CreateEvent", "waveOutOpen"} THEN {"CreateThread"} ELSE {})
    \cup (IF f.k > 0 \/ f.call = "none" THEN {"new[]", "waveOutPrepareHeader"} ELSE {})
    \cup (IF f.k > 1 \/ f.call \in {"none", "waveOutWrite"} THEN {"waveOutWrite"} ELSE {})

\* a guard that looks at the device handle only
AlreadyOpenDeviceOnly == hwo # 0

\* the guard of open: a handle is still held
AlreadyOpen == hwo # 0 \/ waveThread # 0 \/ waveEvent # 0

\* a thread created running
NewThreadRunning == [pc |-> "top", i |-> 1, susp |-> 0]

\* CreateThread(NULL, 0, _threadProc, this, CREATE_SUSPENDED, 0): the thread
\* is at the start of _threadProc with a suspend count of 1
NewThread == [pc |-> "top", i |-> 1, susp |-> 1]

\* Detail::open
Open(cfg, f, addr) ==
    /\ callerPc = "idle"
    /\ IF AlreadyOpen
       THEN /\ f.call = "none" /\ addr = 0
            /\ error' = PW_ALREADY_OPEN
            /\ last' = Call("open", FALSE, {}, "none", Closed, ValidConfig(cfg), FALSE)
            /\ UNCHANGED <<wavehdr, hwo, alive, waveEvent, waveThread, rawAlloc, info,
                           heap, evSignaled, thr, lastSP, owed, run>>
       ELSE IF validate(cfg)
       THEN /\ f.call = "none" /\ addr = 0
            /\ error' = PW_WAVEINFO_ERROR
            /\ last' = Call("open", FALSE, {}, "none", Closed, ValidConfig(cfg), FALSE)
            /\ UNCHANGED <<wavehdr, hwo, alive, waveEvent, waveThread, rawAlloc, info,
                           heap, evSignaled, thr, lastSP, owed, run>>
       ELSE LET evOk == f.call # "CreateEvent"
                devOk == evOk /\ f.call # "waveOutOpen"
                thrOk == devOk /\ f.call # "CreateThread"
                t == CHOOSE u \in Threads : thr[u].pc = "none"
            IN  /\ thrOk => \E u \in Threads : thr[u].pc = "none"
                /\ IF thrOk THEN addr \notin heap \cup {0} ELSE addr = 0
                /\ f.call = "assert" => AssertAborts(cfg, addr, f.k)
                /\ alive' = 1
                /\ info' = cfg
                /\ waveEvent' = IF evOk THEN 1 ELSE 0
                /\ evSignaled' = FALSE
                /\ hwo' = IF devOk THEN 1 ELSE 0
                /\ waveThread' = IF thrOk THEN t ELSE 0
                /\ thr' = IF thrOk
                          THEN [thr EXCEPT ![t] = NewThread]
                          ELSE thr
                /\ rawAlloc' = IF thrOk THEN addr ELSE rawAlloc
                /\ heap' = IF thrOk THEN heap \cup {addr} ELSE heap
                /\ wavehdr' = IF thrOk THEN prepare(cfg, f, addr) ELSE wavehdr
                /\ error' = IF f.call \in {"none", "assert"} THEN error
                             ELSE ErrorOf(f.call)
                /\ lastSP' = IF thrOk THEN "none" ELSE lastSP
                /\ run' = IF f.call = "none" THEN "primed" ELSE run
                /\ owed' = IF thrOk THEN [h \in Hdrs |-> 0] ELSE owed
                /\ last' = Call("open", f.call = "none", OpenOps(f), f.call, Closed,
                                ValidConfig(cfg), FALSE)
    /\ callerPc' = IF f.call = "assert" THEN "crashed" ELSE callerPc

\* ------------------------------------------------------- start / pause
\* ResumeThread: the suspend count after the call
ResumeThread(t) ==
    IF Live(t) /\ thr[t].susp > 0
    THEN [thr EXCEPT ![t].susp = @ - 1]
    ELSE thr

\* a pause that leaves the worker as it is
SuspendThreadSkipped(t) == thr

\* SuspendThread: the suspend count after the call (fails at the maximum)
SuspendThread(t) ==
    IF Live(t) /\ thr[t].susp < MaxSuspend
    THEN [thr EXCEPT ![t].susp = @ + 1]
    ELSE thr

\* a start that reports success without a worker
StartAlwaysTrue ==
    /\ callerPc = "idle"
    /\ thr' = IF waveThread = 0 THEN thr ELSE ResumeThread(waveThread)
    /\ lastSP' = IF waveThread = 0 THEN lastSP ELSE "start"
    /\ run' = IF run = "primed" THEN "started" ELSE run
    /\ last' = Call("start", TRUE, IF waveThread = 0 THEN {} ELSE {"ResumeThread"},
                    "none", Closed, FALSE, FALSE)
    /\ UNCHANGED <<wavehdr, hwo, alive, waveEvent, waveThread, rawAlloc, info, error,
                   heap, evSignaled, callerPc, owed>>

\* Detail::start
Start ==
    /\ callerPc = "idle"
    /\ IF waveThread = 0
       THEN /\ last' = Call("start", FALSE, {}, "none", Closed, FALSE, FALSE)
            /\ UNCHANGED <<thr, lastSP, run>>
       ELSE /\ thr' = ResumeThread(waveThread)
            /\ lastSP' = "start"
            /\ run' = IF run = "primed" THEN "started" ELSE run
            /\ last' = Call("start", TRUE, {"ResumeThread"}, "none", Closed, FALSE, FALSE)
    /\ UNCHANGED <<wavehdr, hwo, alive, waveEvent, waveThread, rawAlloc, info, error,
                   heap, evSignaled, callerPc, owed>>

\* Detail::pause
Pause ==
    /\ callerPc = "idle"
    /\ IF waveThread = 0
       THEN /\ last' = Call("pause", FALSE, {}, "none", Closed, FALSE, FALSE)
            /\ UNCHANGED <<thr, lastSP, run>>
       ELSE /\ thr' = SuspendThread(waveThread)
            /\ lastSP' = "pause"
            /\ UNCHANGED run
            /\ last' = Call("pause", TRUE, {"SuspendThread"}, "none", Closed, FALSE, FALSE)
    /\ UNCHANGED <<wavehdr, hwo, alive, waveEvent, waveThread, rawAlloc, info, error,
                   heap, evSignaled, callerPc, owed>>

\* --------------------------------------------------------------- close
\* delete[] _rawAlloc: the heap afterwards
ReleaseRawAlloc == heap \ {rawAlloc}

\* a TerminateThread that leaves the thread running
TerminateThreadFails(t) == thr

\* TerminateThread on the worker's handle
TerminateThread(t) ==
    IF Live(t) THEN [thr EXCEPT ![t] = DeadThread("killed")] ELSE thr

\* _waveThread = NULL: the threads th once the handle of t is dropped (a
\* thread that has ended leaves its slot)
DropThread(th, t) ==
    IF th[t].pc \in Ended THEN [th EXCEPT ![t] = NoThread] ELSE th

\* close from the device handle on (lines 260-279); c is the call so far,
\* wc and ch the outcomes of waveOutClose and CloseHandle, ub the outcome of
\* deleting an allocation that is not live
CloseTail(c, wc, ch, ub) ==
    IF hwo # 0 /\ ~wc
    THEN /\ error' = PW_WAVEOUTCLOSE_ERROR
         /\ last' = [c EXCEPT !.ret = FALSE, !.ops = @ \cup {"waveOutClose"},
                              !.failed = "waveOutClose"]
         /\ callerPc' = IF c.op = "dtor" THEN "gone" ELSE "idle"
         /\ UNCHANGED <<wavehdr, hwo, waveEvent, rawAlloc, info, heap, evSignaled, owed>>
    ELSE /\ hwo' = 0
         /\ error' = IF waveEvent # 0 /\ ~ch THEN PW_CLOSEHANDLE_ERROR ELSE error
         /\ waveEvent' = 0
         /\ evSignaled' = FALSE
         /\ wavehdr' = [h \in Hdrs |-> ZeroHdr]
         /\ info' = ZeroInfo
         /\ owed' = [h \in Hdrs |-> 0]
         /\ heap' = IF rawAlloc # 0 THEN ReleaseRawAlloc ELSE heap
         /\ last' = [c EXCEPT
                !.ret = TRUE,
                !.ops = @ \cup (IF hwo # 0 THEN {"waveOutClose"} ELSE {})
                          \cup (IF waveEvent # 0 THEN {"CloseHandle"} ELSE {})
                          \cup (IF rawAlloc # 0 THEN {"delete[]"} ELSE {})
                          \cup (IF rawAlloc # 0 /\ rawAlloc \notin heap
                                THEN {"double free"} ELSE {}),
                !.failed = IF waveEvent # 0 /\ ~ch THEN "CloseHandle" ELSE @]
         /\ callerPc' = IF rawAlloc # 0 /\ rawAlloc \notin heap /\ ub = "crash"
                        THEN "crashed"
                        ELSE IF c.op = "dtor" THEN "gone" ELSE "idle"
         /\ UNCHANGED rawAlloc

\* close up to the join (lines 237-241), entered by close() or by ~Detail
CloseBegin(op, wc, ch, ub) ==
    /\ callerPc = "idle"
    /\ alive' = 0
    /\ LET c == Call(op, FALSE, {}, "none", Closed, FALSE,
                     last.op = "open" /\ last.ret /\ last.valid /\ last.preClosed)
       IN  IF waveThread # 0
           THEN /\ callerPc' = "join"
                /\ last' = c
                /\ UNCHANGED <<wavehdr, hwo, waveEvent, rawAlloc, info, error, heap,
                               evSignaled, owed>>
           ELSE CloseTail(c, wc, ch, ub)
    /\ UNCHANGED <<waveThread, thr, lastSP, run>>

\* Detail::close
Close(wc, ch, ub) == CloseBegin("close", wc, ch, ub)

\* Detail::~Detail
Destroy(wc, ch, ub) == CloseBegin("dtor", wc, ch, ub)

\* a join without a timeout: it returns only when the thread has ended
JoinReturnsOnExit == thr[waveThread].pc \in {"exited", "failed"}

\* WaitForSingleObject(_waveThread, timeout) returns: when the thread has
\* ended, and otherwise when the timeout elapses, which it always does
JoinReturns == TRUE

\* the join is over and GetExitCodeThread has answered (gx: it succeeded):
\* lines 241-251
CloseJoin(gx, wc, ch, ub) ==
    /\ callerPc = "join"
    /\ JoinReturns
    /\ LET hardKill == ~(gx /\ thr[waveThread].pc \in {"exited", "failed"})
           c == [last EXCEPT !.ops = @ \cup {"WaitForSingleObject"}]
       IN  IF hardKill
           THEN /\ error' = PW_THREAD_ABORT
                /\ callerPc' = "kill"
                /\ last' = c
                /\ UNCHANGED <<wavehdr, hwo, waveEvent, waveThread, rawAlloc, info,
                               heap, evSignaled, owed>>
                /\ UNCHANGED <<thr, run>>
           ELSE /\ waveThread' = 0
                /\ run' = "none"
                /\ thr' = DropThread(thr, waveThread)
                /\ CloseTail(c, wc, ch, ub)
    /\ UNCHANGED <<alive, lastSP>>

\* TerminateThread and the rest of close: lines 254-279
CloseKill(wc, ch, ub) ==
    /\ callerPc = "kill"
    /\ thr' = DropThread(TerminateThread(waveThread), waveThread)
    /\ waveThread' = 0
    /\ run' = "none"
    /\ CloseTail([last EXCEPT !.ops = @ \cup {"TerminateThread"}], wc, ch, ub)
    /\ UNCHANGED <<alive, lastSP>>

\* ------------------------------------------------------- the worker thread
\* a scan that goes back to the wait after the first header
NextHdrRestart(t) == [thr EXCEPT ![t].pc = "top", ![t].i = 1]

\* the header after hdr in the for loop, or back to the while test
NextHdr(t) ==
    IF thr[t].i < NumHdrs
    THEN [thr EXCEPT ![t].pc = "scan", ![t].i = @ + 1]
    ELSE [thr EXCEPT ![t].pc = "top", ![t].i = 1]

\* a worker that goes on to the next header when a device call fails
WorkerSkipsHeader(t) == NextHdr(t)

\* return 1: a device call of the loop failed
WorkerFails(t) == [thr EXCEPT ![t] = DeadThread("failed")]

\* while (self._alive)
WTop(t) ==
    /\ Runnable(t) /\ thr[t].pc = "top"
    /\ thr' = IF alive # 0 THEN [thr EXCEPT ![t].pc = "wait"]
              ELSE [thr EXCEPT ![t] = DeadThread("exited")]
    /\ UNCHANGED <<wavehdr, hwo, alive, waveEvent, waveThread, rawAlloc, info, error,
                   heap, evSignaled, callerPc, last, lastSP, owed, run>>

\* WaitForSingleObject(self._waveEvent, INFINITE) returns
WWait(t) ==
    /\ Runnable(t) /\ thr[t].pc = "wait"
    /\ evSignaled \/ waveEvent = 0
    /\ evSignaled' = FALSE
    /\ thr' = [thr EXCEPT ![t].pc = "scan", ![t].i = 1]
    /\ UNCHANGED <<wavehdr, hwo, alive, waveEvent, waveThread, rawAlloc, info, error,
                   heap, callerPc, last, lastSP, owed, run>>

\* the WHDR_DONE test and waveOutUnprepareHeader (ok: it succeeds)
WScan(t, ok) ==
    /\ Runnable(t) /\ thr[t].pc = "scan"
    /\ LET h == thr[t].i
       IN  IF ~Done(h)
           THEN /\ ok
                /\ thr' = NextHdr(t)
                /\ UNCHANGED wavehdr
           ELSE IF ok
           THEN /\ wavehdr' = [wavehdr EXCEPT ![h] = UnprepareHeader(@)]
                /\ thr' = [thr EXCEPT ![t].pc = "call"]
           ELSE /\ thr' = WorkerFails(t)
                /\ UNCHANGED wavehdr
    /\ UNCHANGED <<hwo, alive, waveEvent, waveThread, rawAlloc, info, error,
                   heap, evSignaled, callerPc, last, lastSP, owed, run>>

\* the callback is read from _info and, if there is one, entered
WCall(t) ==
    /\ Runnable(t) /\ thr[t].pc = "call"
    /\ IF info.callback # 0
       THEN /\ thr' = [thr EXCEPT ![t].pc = "incb"]
            /\ owed' = [owed EXCEPT ![thr[t].i] = 0]
       ELSE /\ thr' = [thr EXCEPT ![t].pc = "prep"]
            /\ UNCHANGED owed
    /\ UNCHANGED <<wavehdr, hwo, alive, waveEvent, waveThread, rawAlloc, info, error,
                   heap, evSignaled, callerPc, last, lastSP, run>>

\* the callback returns
WReturn(t) ==
    /\ Runnable(t) /\ thr[t].pc = "incb"
    /\ thr' = [thr EXCEPT ![t].pc = "prep"]
    /\ UNCHANGED <<wavehdr, hwo, alive, waveEvent, waveThread, rawAlloc, info, error,
                   heap, evSignaled, callerPc, last, lastSP, owed, run>>

\* waveOutPrepareHeader in the loop (ok: it succeeds)
WPrepare(t, ok) ==
    /\ Runnable(t) /\ thr[t].pc = "prep"
    /\ IF ok
       THEN /\ wavehdr' = [wavehdr EXCEPT ![thr[t].i] = PrepareHeader(@)]
            /\ thr' = [thr EXCEPT ![t].pc = "write"]
       ELSE /\ thr' = WorkerFails(t)
            /\ UNCHANGED wavehdr
    /\ UNCHANGED <<hwo, alive, waveEvent, waveThread, rawAlloc, info, error,
                   heap, evSignaled, callerPc, last, lastSP, owed, run>>

\* waveOutWrite in the loop (ok: it succeeds)
WWrite(t, ok) ==
    /\ Runnable(t) /\ thr[t].pc = "write"
    /\ IF ok
       THEN /\ wavehdr' = [wavehdr EXCEPT ![thr[t].i] = WriteHeader(@)]
            /\ owed' = [owed EXCEPT ![thr[t].i] = 0]
            /\ thr' = NextHdr(t)
       ELSE /\ thr' = WorkerFails(t)
            /\ UNCHANGED <<wavehdr, owed>>
    /\ UNCHANGED <<hwo, alive, waveEvent, waveThread, rawAlloc, info, error,
                   heap, evSignaled, callerPc, last, lastSP, run>>

\* ------------------------------------------------------- the wave device
\* the device finishes playing header h: WHDR_DONE is set, the event signalled
DeviceComplete(h) ==
    /\ Running
    /\ hwo # 0 /\ Submitted(h)
    /\ wavehdr' = [wavehdr EXCEPT ![h].dwFlags = (@ \ {"INQUEUE"}) \cup {"DONE"}]
    /\ evSignaled' = TRUE
    /\ owed' = [owed EXCEPT ![h] = 1]
    /\ UNCHANGED <<hwo, alive, waveEvent, waveThread, rawAlloc, info, error,
                   heap, thr, callerPc, last, lastSP, run>>

\* the device signals the event with no completion behind it (as on open)
DeviceNotify ==
    /\ Running
    /\ hwo # 0 /\ ~evSignaled
    /\ evSignaled' = TRUE
    /\ UNCHANGED <<wavehdr, hwo, alive, waveEvent, waveThread, rawAlloc, info, error,
                   heap, thr, callerPc, last, lastSP, owed, run>>

\* ------------------------------------------------------- specification
UbOutcomes == {"continue", "crash"}

\* the outcomes open can meet: none of its calls is made when it is rejected
OpenFails(F) == IF AlreadyOpen THEN {[call |-> "none", k |-> 0]} ELSE F
OpenAddrs(A) == IF AlreadyOpen THEN {0} ELSE A \cup {0}

\* the caller's thread leaves the bounded wait of close
JoinStep == \E gx, wc, ch \in BOOLEAN, ub \in UbOutcomes : CloseJoin(gx, wc, ch, ub)
\* the caller's thread terminates the worker and finishes close
KillStep == \E wc, ch \in BOOLEAN, ub \in UbOutcomes : CloseKill(wc, ch, ub)

\* the caller's thread: the public operations and the steps of close
Caller ==
    \/ \E cfg \in Configs, f \in OpenFails(FailPoints), addr \in OpenAddrs(HeapAddrs) :
          Open(cfg, f, addr)
    \/ Start
    \/ Pause
    \/ \E wc, ch \in BOOLEAN, ub \in UbOutcomes : Close(wc, ch, ub)
    \/ \E wc, ch \in BOOLEAN, ub \in UbOutcomes : Destroy(wc, ch, ub)
    \/ JoinStep
    \/ KillStep

\* Detail::_threadProc, step by step
threadProc(t) ==
    \/ WTop(t)
    \/ WWait(t)
    \/ \E ok \in BOOLEAN : WScan(t, ok)
    \/ WCall(t)
    \/ WReturn(t)
    \/ \E ok \in BOOLEAN : WPrepare(t, ok)
    \/ \E ok \in BOOLEAN : WWrite(t, ok)

Device ==
    \/ \E h \in Hdrs : DeviceComplete(h)
    \/ DeviceNotify

Next ==
    \/ Caller
    \/ \E t \in Threads : threadProc(t)
    \/ Device

Spec == Init /\ [][Next]_vars

\* the caller alone, opening closed sessions with every configuration and
\* closing them: the worker is never started and the device plays nothing
SeqNext ==
    \/ \E cfg \in AllConfigs, f \in FailPoints, addr \in HeapAddrs \cup {0} :
          ~AlreadyOpen /\ Open(cfg, f, addr)
    \/ \E wc, ch \in BOOLEAN, ub \in UbOutcomes : Close(wc, ch, ub)
    \/ \E wc, ch \in BOOLEAN, ub \in UbOutcomes : Destroy(wc, ch, ub)
    \/ JoinStep
    \/ KillStep

SeqSpec == Init /\ [][SeqNext]_vars

\* the caller's thread is scheduled: the wait on the worker has a timeout and
\* the calls after it return
FairSpec == Spec /\ WF_vars(JoinStep) /\ WF_vars(KillStep)

\* the worker is scheduled: a thread that is not suspended and not blocked in
\* its wait takes its next step, and the callback returns
LiveSpec == Spec /\ \A t \in Threads : WF_vars(threadProc(t))

\* ------------------------------------------------------------ properties
\* close (or the destructor) has returned
CloseReturned == last.op \in {"close", "dtor"} /\ callerPc \notin {"join", "kill"}

\* C1: open of a configuration that fails validation, on a Closed session,
\* returns false with PW_WAVEINFO_ERROR and acquires nothing: the session
\* stays Closed, no call was made, nothing is allocated.
C1_InvalidConfigRejected ==
    (last.op = "open" /\ last.preClosed /\ ~last.valid)
        => /\ ~last.ret
           /\ error = PW_WAVEINFO_ERROR
           /\ Closed
           /\ last.ops = {}
           /\ heap = {}

\* C2: open of a valid configuration on a Closed session returns true when
\* every device call it makes succeeds, and a close right after it (its device
\* calls succeeding) returns true, leaves the session Closed and has released
\* the pool allocation once: no allocation is outstanding.
C2_OpenCloseNoLeak ==
    /\ (last.op = "open" /\ last.preClosed /\ last.valid
           /\ last.failed \in {"none", "assert"})
          => (last.ret /\ hwo # 0 /\ waveThread # 0 /\ rawAlloc \in heap)
    /\ (last.op = "close" /\ callerPc \notin {"join", "kill"} /\ last.afterOpen
          /\ last.failed = "none")
          => /\ callerPc = "idle"
             /\ last.ret
             /\ Closed
             /\ heap = {}
             /\ "delete[]" \in last.ops
             /\ "double free" \notin last.ops

\* a close right after a successful open of a valid configuration has returned
C2_Witness ==
    /\ last.op = "close" /\ callerPc = "idle" /\ last.afterOpen
    /\ last.failed = "none" /\ last.ret
    /\ "delete[]" \in last.ops /\ heap = {}

\* C3: close on a session that is already Closed returns true and makes no
\* device call and no memory operation: nothing is released a second time.
C3_CloseIdempotent ==
    (CloseReturned /\ last.preClosed)
        => (last.ret /\ last.ops = {} /\ callerPc # "crashed")

\* C4: when a call of open fails after validation, open returns false with
\* that call's error code, and what it had acquired is released: the session
\* is Closed, the liveness flag is clear, nothing is allocated.
C4_FailedOpenReleases ==
    (last.op = "open" /\ last.failed # "none")
        => /\ ~last.ret
           /\ error = ErrorOf(last.failed)
           /\ Closed
           /\ alive = 0
           /\ heap = {}

\* C5: once close returns, whatever its device calls answered, the session is
\* Closed (no worker, device handle or event is held, so open is not rejected
\* as already open) and the pool is released.
C5_CloseAlwaysCloses ==
    (last.op = "close" /\ callerPc = "idle") => (Closed /\ heap = {})

\* C6: the worker is runnable exactly when the later of the successful start
\* and pause calls was start, however many pause calls came before it.
C6_RunnableIffLastStart ==
    (waveThread # 0 /\ Live(waveThread) /\ callerPc = "idle")
        => /\ lastSP = "start" => thr[waveThread].susp = 0
           /\ lastSP = "pause" => thr[waveThread].susp > 0

\* C7: after a pause that returned true and until the next start call, no
\* callback invocation begins, and a header that is Done is not unprepared,
\* prepared or submitted (it stays Done, or is cleared by close).
C7_NoRefillWhilePaused ==
    [][lastSP = "pause" /\ lastSP' = "pause"
        => /\ \A t \in Threads : thr'[t].pc = "incb" => thr[t].pc = "incb"
           /\ \A h \in Hdrs :
                "DONE" \in wavehdr[h].dwFlags
                    => wavehdr'[h].dwFlags \in {wavehdr[h].dwFlags, {}}]_vars

\* the worker ran, was paused, and a header has completed since it last looked
C7_Witness ==
    /\ lastSP = "pause" /\ waveThread # 0 /\ callerPc = "idle"
    /\ thr[waveThread].pc = "wait" /\ thr[waveThread].susp > 0
    /\ evSignaled
    /\ \E h \in Hdrs : "DONE" \in wavehdr[h].dwFlags /\ owed[h] = 1

\* C8: callback invocations never overlap, a callback invocation begins only
\* on a header with a completion not yet answered, and the worker submits a
\* completed header again only after the callback has answered the completion
\* (in a session that has a callback).
C8_OncePerCompletion ==
    /\ [](Cardinality({t \in Threads : thr[t].pc = "incb"}) <= 1)
    /\ [][\A t \in Threads :
            /\ (thr[t].pc # "incb" /\ thr'[t].pc = "incb") => owed[thr[t].i] = 1
            /\ (thr[t].pc = "write" /\ thr'[t].pc \in {"scan", "top"}
                   /\ info.callback # 0) => owed[thr[t].i] = 0]_vars

\* the worker is in the callback for one of two headers that completed under
\* one notification
C8_Witness ==
    /\ waveThread # 0 /\ thr[waveThread].pc = "incb" /\ ~evSignaled
    /\ \E h \in Hdrs : h # thr[waveThread].i /\ owed[h] = 1

\* C9: close does not wait for the worker for ever: the join ends, and when
\* the worker has not exited by then close goes on to terminate it.
C9_CloseTerminates ==
    /\ (callerPc \in {"join", "kill"}) ~> (callerPc \notin {"join", "kill"})
    /\ [][(callerPc = "join" /\ callerPc' # "join"
               /\ thr[waveThread].pc \notin {"exited", "failed"})
            => (callerPc' = "kill" /\ error' = PW_THREAD_ABORT)]_vars

\* close is terminating a worker that is blocked in the wait for an event the
\* device has not signalled
C9_Witness ==
    /\ callerPc = "kill" /\ thr[waveThread].pc = "wait"
    /\ thr[waveThread].susp = 0 /\ ~evSignaled

\* C10: after a close that terminated the worker the last error is
\* PW_THREAD_ABORT, and after a close that found the worker exited it is not.
C10_ForcedKillRecorded ==
    (last.op = "close" /\ callerPc = "idle" /\ "WaitForSingleObject" \in last.ops)
        => ("TerminateThread" \in last.ops <=> error = PW_THREAD_ABORT)

\* the session's own state: every field of Detail but _error, the heap, the
\* event object and the threads
Frame == <<wavehdr, hwo, alive, waveEvent, waveThread, rawAlloc, info, heap,
           evSignaled, thr>>

\* C11: open on a session that is not Closed returns false with
\* PW_ALREADY_OPEN and changes nothing but the last error: configuration,
\* device handle, event, worker and its suspend count, liveness flag, pool
\* allocation and headers are as before.
C11_RejectedOpenChangesNothing ==
    /\ []((last.op = "open" /\ ~last.preClosed)
            => (~last.ret /\ error = PW_ALREADY_OPEN))
    /\ [][(last' # last /\ last'.op = "open" /\ ~last'.preClosed)
            => UNCHANGED Frame]_vars

\* open was rejected on a session whose worker is inside the callback
C11_Witness ==
    /\ last.op = "open" /\ ~last.preClosed /\ ~last.ret /\ error = PW_ALREADY_OPEN
    /\ waveThread # 0 /\ thr[waveThread].pc = "incb" /\ thr[waveThread].susp = 0

\* C12: after a public operation has returned false the last error is the
\* code of that failure: never PW_OK and never the code an earlier open or
\* close left.
C12_FailureSetsError ==
    (~last.ret /\ callerPc = "idle")
        => CASE last.op = "open" ->
                  error = IF ~last.preClosed THEN PW_ALREADY_OPEN
                          ELSE IF last.failed = "none" THEN PW_WAVEINFO_ERROR
                          ELSE ErrorOf(last.failed)
             [] last.op = "close" -> error = PW_WAVEOUTCLOSE_ERROR
             [] OTHER -> error \notin PW_OK..PW_CLOSEHANDLE_ERROR

\* C13: after a successful open of a valid configuration every header's
\* length is a quarter of the requested byte count with nothing lost: the 4
\* lengths add up to bufferSize x channels x bitDepth/8.
C13_BuffersCoverRequest ==
    (last.op = "open" /\ last.ret /\ last.valid)
        => \A h \in Hdrs :
              NumHdrs * wavehdr[h].dwBufferLength
                  = info.bufferSize * info.channels * (info.bitDepth \div 8)

\* C14: start and pause on a Closed session return false and change nothing.
C14_StartPauseOnClosed ==
    /\ []((last.op \in {"start", "pause"} /\ last.preClosed) => ~last.ret)
    /\ [][(last' # last /\ last'.op \in {"start", "pause"} /\ last'.preClosed)
            => UNCHANGED <<Frame, error>>]_vars

\* pause was refused on a session that an earlier close has closed
C14_Witness ==
    /\ last.op = "pause" /\ last.preClosed /\ ~last.ret
    /\ Closed /\ heap = {} /\ error = PW_THREAD_ABORT

\* the session is running: its worker is alive and not suspended, and no
\* close is under way
Feeding == waveThread # 0 /\ Runnable(waveThread) /\ callerPc = "idle"

\* C15: while the session is running (no pause, no close, no failed device
\* call), a header the device has marked done is eventually submitted again,
\* and the worker is never blocked in its wait with the event not signalled
\* while a header is done.
C15_DoneLeadsToSubmitted ==
    /\ []((Feeding /\ thr[waveThread].pc = "wait" /\ ~evSignaled)
            => \A h \in Hdrs : ~Done(h))
    /\ \A h \in Hdrs : (Done(h) /\ Feeding) ~> (Submitted(h) \/ ~Feeding)

\* the worker is in the callback for header 3 while header 1, which it has
\* passed in this scan, and header 4 have completed
C15_Witness ==
    /\ Feeding /\ thr[waveThread].pc = "incb" /\ thr[waveThread].i = 3
    /\ Done(1) /\ Done(4) /\ evSignaled

Prepared(h) == "PREPARED" \in wavehdr[h].dwFlags

\* C16: prepare and unprepare are paired per header: a submitted header is
\* prepared, the callback runs on a header that has been unprepared, the
\* worker prepares only a header that is not prepared, and when close releases
\* the pool no header is still prepared.
C16_PreparePaired ==
    /\ [](\A h \in Hdrs : Submitted(h) => Prepared(h))
    /\ [](\A t \in Threads : thr[t].pc = "incb" => ~Prepared(thr[t].i))
    /\ [][\A t \in Threads :
            (thr[t].pc = "prep" /\ thr'[t].pc = "write") => ~Prepared(thr[t].i)]_vars
    /\ [][(rawAlloc \in heap /\ rawAlloc \notin heap')
            => \A h \in Hdrs : ~Prepared(h)]_vars

\* C17: the pool is allocated as long as a worker is alive, and the step of
\* close that releases it leaves no worker alive: no step of the loop, no
\* callback, follows the release.
C17_NoUseAfterFree ==
    /\ [](\A t \in Threads : Live(t) => rawAlloc \in heap)
    /\ [][(rawAlloc \in heap /\ rawAlloc \notin heap')
            => \A t \in Threads : thr'[t].pc = "none"]_vars

\* close has terminated the worker of a session that was running and has
\* released the pool
C17_Witness ==
    /\ last.op = "close" /\ callerPc = "idle" /\ lastSP = "start"
    /\ "TerminateThread" \in last.ops /\ "delete[]" \in last.ops
    /\ "double free" \notin last.ops /\ heap = {}
    /\ \A t \in Threads : ~Live(t)

\* thread t has left its place in the loop
Moved(t) == thr'[t].pc # thr[t].pc \/ thr'[t].i # thr[t].i

\* C18: a worker goes past a device call of the loop only when the call has
\* taken effect; when it has not, the worker ends there (or is terminated by
\* close) without touching a header, and a worker that has ended this way
\* takes no further step, whatever start does.
C18_WorkerStopsOnFailure ==
    [][\A t \in Threads :
        LET h == thr[t].i
            stops == thr'[t].pc \in {"failed", "none"}
        IN  /\ (thr[t].pc = "scan" /\ Done(h) /\ Moved(t)
                   /\ "PREPARED" \in wavehdr'[h].dwFlags) => stops
            /\ (thr[t].pc = "prep" /\ Moved(t)
                   /\ "PREPARED" \notin wavehdr'[h].dwFlags) => stops
            /\ (thr[t].pc = "write" /\ Moved(t)
                   /\ "INQUEUE" \notin wavehdr'[h].dwFlags) => stops
            /\ (thr[t].pc # "failed" /\ thr'[t].pc = "failed")
                   => UNCHANGED <<wavehdr, owed, evSignaled>>
            /\ thr[t].pc = "failed" => thr'[t] \in {thr[t], NoThread}]_vars

\* start has returned true on a session whose worker ended on a failed device
\* call, and a header is done with no one to serve it
C18_Witness ==
    /\ waveThread # 0 /\ thr[waveThread].pc = "failed"
    /\ last.op = "start" /\ last.ret /\ callerPc = "idle"
    /\ \E h \in Hdrs : Done(h)

\* C19: from a successful open to the first start every header is prepared
\* and either submitted or done, no completion has been answered by a
\* callback, and the worker exists, suspended, at the start of its loop.
C19_PrimedBeforeStart ==
    /\ (last.op = "open" /\ last.ret) => run = "primed"
    /\ (run = "primed" /\ callerPc = "idle")
          => /\ waveThread # 0
             /\ thr[waveThread].pc = "top" /\ thr[waveThread].i = 1
             /\ thr[waveThread].susp >= 1
             /\ \A h \in Hdrs :
                   /\ wavehdr[h].dwFlags \in {{"PREPARED", "INQUEUE"}, {"PREPARED", "DONE"}}
                   /\ owed[h] = 1 <=> Done(h)

\* before the first start, after a pause, with one header done and another
\* still queued
C19_Witness ==
    /\ run = "primed" /\ callerPc = "idle" /\ lastSP = "pause"
    /\ Done(1) /\ Submitted(2)

\* C20: open of a valid configuration does not trip the alignment assertion,
\* and the 4 chunks start at multiples of 16.
C20_ChunksAligned ==
    (last.op = "open" /\ last.preClosed /\ last.valid)
        => /\ last.failed # "assert"
           /\ last.ret => \A h \in Hdrs : wavehdr[h].lpData % alignment = 0

====
